---- MODULE Spec2Model ----
(***************************************************************************)
(* Model of the two scripts of the repository:                             *)
(*   calc_md5.py              the content-hash renamer (process_files)     *)
(*   folder_struct_to_json.py the tree snapshot builder (main,             *)
(*                            traverse_folder and its helpers)             *)
(* File names are sequences of one-character strings, so that splitext,    *)
(* zfill, slicing and the regular expression HASH_PATTERN are computed     *)
(* character by character, as the library calls of the source compute them.*)
(***************************************************************************)
EXTENDS Integers, Sequences, FiniteSets, TLC

VARIABLES
    \* ---- renamer (calc_md5.py) ----
    tree,        \* the file system under `folder`: dir -> set of file records
    tree0,       \* the tree as it was before the first pass (history)
    hash_len,    \* argument hash_len of process_files
    posix,       \* TRUE: os.rename replaces an existing target; FALSE (Windows): it raises
    pc,          \* position of process_files
    passNo,      \* number of calls of process_files started so far
    ended,       \* how each earlier call ended: "done" or "raised"
    walkq,       \* directories os.walk has still to yield
    root,        \* directory os.walk yielded last
    files,       \* names of `files` the inner loop has still to visit
    file,        \* loop variable `file`
    new_name,    \* local new_name
    hashStr,     \* the hash field of new_name
    renamed,     \* renames performed by the current call
    failed,      \* renames reported as failed by the current call
    deleted,     \* files removed by another process while a call runs
    \* ---- snapshot builder (folder_struct_to_json.py) ----
    fs,          \* the scanned tree: node -> attributes
    argc,        \* len(sys.argv)
    git_root,    \* result of get_git_root: TRUE when a repository root was found
    output_path, \* sys.argv[2] (or the default), as a sequence of path components
    writable,    \* whether open(output_path, "w") succeeds
    spc,         \* position of main / traverse_folder
    stack,       \* the frames of traverse_folder, innermost last
    struct_data, \* main's struct_data once traverse_folder returned
    exitcode     \* exit code of the snapshot program (-1 while running)

renVars == <<tree, tree0, hash_len, posix, pc, passNo, ended, walkq, root, files,
             file, new_name, hashStr, renamed, failed, deleted>>
snapVars == <<fs, argc, git_root, output_path, writable, spc, stack, struct_data, exitcode>>
vars == <<renVars, snapVars>>

(***************************************************************************)
(* Bounds of the model                                                     *)
(***************************************************************************)
MaxWidth == 2      \* hash_len ranges over 0..MaxWidth
MaxFiles == 2      \* files in the renamer's tree at the start
MaxPasses == 2     \* calls of process_files in a row
MaxDeletes == 1    \* concurrent deletions by another process
NDirs == 2         \* directories of the renamer's tree (1 is `folder`, walked first)
NNodes == 3        \* entries below the target folder of the snapshot builder

(***************************************************************************)
(* Sequence helpers                                                        *)
(***************************************************************************)
Min(a, b) == IF a < b THEN a ELSE b

Range(s) == {s[i] : i \in 1..Len(s)}

Reverse(s) == [i \in 1..Len(s) |-> s[Len(s) + 1 - i]]

\* s[:n] of Python for n >= 0
Prefix(s, n) == SubSeq(s, 1, Min(n, Len(s)))

\* s[i:] of Python, i counted from 1 here
Suffix(s, i) == SubSeq(s, i, Len(s))

(***************************************************************************)
(* calc_md5.py                                                             *)
(***************************************************************************)
BASE36_CHARS ==
    << "0", "1", "2", "3", "4", "5", "6", "7", "8", "9", "a", "b", "c", "d", "e", "f",
       "g", "h", "i", "j", "k", "l", "m", "n", "o", "p", "q", "r", "s", "t", "u", "v",
       "w", "x", "y", "z" >>

\* the character class [0-9a-z] of HASH_PATTERN
IsB36(c) == c \in Range(BASE36_CHARS)

\* the loop `while num > 0: num, rem = divmod(num, 36); result.append(...)`
RECURSIVE B36Loop(_, _)
B36Loop(num, result) ==
    IF num > 0
    THEN B36Loop(num \div 36, Append(result, BASE36_CHARS[(num % 36) + 1]))
    ELSE result

\* the encoding part of calc_md5: the digest integer in base 36, most significant first
Base36(num) == Reverse(B36Loop(num, <<>>))

\* str.zfill(width): left-pad with "0" (the string holds no sign here)
zfill(s, width) ==
    IF Len(s) >= width THEN s ELSE [i \in 1..(width - Len(s)) |-> "0"] \o s

\* calc_md5(file_path).zfill(hash_len)[:hash_len]
HashFieldNoCut(num, width) == zfill(Base36(num), width)

HashField(num, width) == Prefix(zfill(Base36(num), width), width)

\* index of the last "." of p, 0 when there is none (p.rfind("."))
LastDot(p) ==
    LET D == {i \in 1..Len(p) : p[i] = "."}
    IN  IF D = {} THEN 0 ELSE CHOOSE i \in D : \A j \in D : j <= i

\* os.path.splitext on a base name: the extension starts at the last dot, unless
\* only dots precede it
splitext(p) ==
    LET d == LastDot(p)
    IN  IF d > 0 /\ \E k \in 1..(d - 1) : p[k] # "."
        THEN <<SubSeq(p, 1, d - 1), Suffix(p, d)>>
        ELSE <<p, <<>>>>

RECURSIVE lstripDot(_)
lstripDot(s) == IF s # <<>> /\ Head(s) = "." THEN lstripDot(Tail(s)) ELSE s

\* str.strip("."): dots removed at both ends
stripDot(s) == Reverse(lstripDot(Reverse(lstripDot(s))))

\* the f-string of new_name: {name}._.{hash}._.{ext.strip('.')}
NewName(f, h) ==
    LET se == splitext(f)
    IN  se[1] \o <<".", "_", ".">> \o h \o <<".", "_", ".">> \o stripDot(se[2])

\* HASH_PATTERN = \._\.M[0-9a-z]+\._\. : length of the run of [0-9a-z] from index i
RECURSIVE RunLen(_, _)
RunLen(s, i) == IF i <= Len(s) /\ IsB36(s[i]) THEN 1 + RunLen(s, i + 1) ELSE 0

\* index of the last character of the match of HASH_PATTERN that starts at i, 0 when
\* there is none. "." is outside [0-9a-z], so only the longest run can be followed
\* by "._." and the greedy + never has to give characters back.
MatchEnd(s, i) ==
    LET r == RunLen(s, i + 4)
        e == i + 4 + r
    IN  IF /\ i + 3 <= Len(s)
           /\ SubSeq(s, i, i + 3) = <<".", "_", ".", "M">>
           /\ r >= 1
           /\ e + 2 <= Len(s)
           /\ SubSeq(s, e, e + 2) = <<".", "_", ".">>
        THEN e + 2
        ELSE 0

\* HASH_PATTERN.search(s) is not None
HashTagged(s) == \E i \in 1..Len(s) : MatchEnd(s, i) > 0

\* file.startswith(".")
Hidden(s) == s # <<>> /\ s[1] = "."

(***************************************************************************)
(* The renamer's file system.  A file is [name, content, readable]; its    *)
(* content is identified with the integer int.from_bytes(md5.digest()) of  *)
(* its bytes, which is all calc_md5 uses of it.  readable = FALSE is a file *)
(* open() fails on: no read permission, or a dangling symlink.             *)
(***************************************************************************)
Dirs == 1..NDirs

\* the order in which os.walk (top-down) yields the directories
WalkOrder == [i \in 1..NDirs |-> i]

\* digest integers: 0 (empty representation), 37 = "11", 46657 = "1001"
Digests == {0, 37, 46657}

Widths == 0..MaxWidth

N_aj == <<"a", ".", "j">>
N_a == <<"a">>
N_hidden == <<".", "h">>
N_tagged == <<"a", ".", "_", ".", "M", "0", ".", "_", ".", "j">>

\* names a tree can hold: plain ones, a hidden one, one carrying the tag of
\* HASH_PATTERN, and the names an earlier run with the same width gave a.j
NamesFor(w) == {N_aj, N_a, N_hidden, N_tagged} \cup {NewName(N_aj, HashField(d, w)) : d \in Digests}

FileRecs(w) == [name : NamesFor(w), content : Digests, readable : BOOLEAN]

Placements(w) == Dirs \X FileRecs(w)

\* sets of at most k placements, no two with the same directory and name
RECURSIVE TreesUpTo(_, _)
TreesUpTo(w, k) ==
    IF k = 0 THEN {{}}
    ELSE LET T == TreesUpTo(w, k - 1)
         IN  T \cup {t \cup {p} : t \in T,
                     p \in {q \in Placements(w) : TRUE}}

UniqueNames(t) == \A p, q \in t : (p[1] = q[1] /\ p[2].name = q[2].name) => p = q

TreeOf(t) == [d \in Dirs |-> {p[2] : p \in {q \in t : q[1] = d}}]

Listing(d) == {r.name : r \in tree[d]}

Lookup(d, n) == CHOOSE r \in tree[d] : r.name = n

SnapParked ==
    /\ fs = <<>>
    /\ argc = 0
    /\ git_root = FALSE
    /\ output_path = <<>>
    /\ writable = FALSE
    /\ spc = "off"
    /\ stack = <<>>
    /\ struct_data = <<>>
    /\ exitcode = -1

RenInitWith(t, w, px) ==
    /\ tree = TreeOf(t)
    /\ tree0 = TreeOf(t)
    /\ hash_len = w
    /\ posix = px
    /\ pc = "idle"
    /\ passNo = 0
    /\ ended = <<>>
    /\ walkq = <<>>
    /\ root = 0
    /\ files = {}
    /\ file = <<>>
    /\ new_name = <<>>
    /\ hashStr = <<>>
    /\ renamed = 0
    /\ failed = 0
    /\ deleted = 0

Init ==
    /\ \E w \in Widths \ {0}, px \in BOOLEAN :
         \E t \in {u \in TreesUpTo(w, MaxFiles) : UniqueNames(u)} :
            RenInitWith(t, w, px)
    /\ SnapParked

\* process_files is called (the __main__ block, run again by the user)
StartPass ==
    /\ pc \in {"idle", "raised"}
    /\ passNo < MaxPasses
    /\ passNo' = passNo + 1
    /\ walkq' = WalkOrder
    /\ files' = {}
    /\ root' = 0
    /\ renamed' = 0
    /\ failed' = 0
    /\ pc' = "loop"
    /\ UNCHANGED <<tree, tree0, hash_len, posix, ended, file, new_name, hashStr, deleted>>

\* os.walk yields the next directory with the names of the files it holds now
WalkDir ==
    /\ pc = "loop"
    /\ files = {}
    /\ walkq # <<>>
    /\ root' = Head(walkq)
    /\ walkq' = Tail(walkq)
    /\ files' = Listing(Head(walkq))
    /\ UNCHANGED <<tree, tree0, hash_len, posix, pc, passNo, ended, file, new_name,
                   hashStr, renamed, failed, deleted>>

\* the `continue` of line 26-28: hidden or already tagged
SkipFile ==
    /\ pc = "loop"
    /\ \E f \in files :
         /\ Hidden(f) \/ HashTagged(f)
         /\ files' = files \ {f}
         /\ file' = f
    /\ UNCHANGED <<tree, tree0, hash_len, posix, pc, passNo, ended, walkq, root,
                   new_name, hashStr, renamed, failed, deleted>>

\* lines 30-35: calc_md5 opens and reads the file outside the try block, so a file
\* that is gone or unreadable raises out of process_files
HashFile ==
    /\ pc = "loop"
    /\ \E f \in files :
         /\ ~(Hidden(f) \/ HashTagged(f))
         /\ file' = f
         /\ files' = files \ {f}
         /\ IF f \in Listing(root) /\ Lookup(root, f).readable
            THEN /\ hashStr' = HashField(Lookup(root, f).content, hash_len)
                 /\ new_name' = NewName(f, HashField(Lookup(root, f).content, hash_len))
                 /\ pc' = "rename"
                 /\ ended' = ended
            ELSE /\ pc' = "raised"
                 /\ ended' = Append(ended, "raised")
                 /\ UNCHANGED <<hashStr, new_name>>
    /\ UNCHANGED <<tree, tree0, hash_len, posix, passNo, walkq, root, renamed, failed,
                   deleted>>

\* os.rename(file_path, new_path) of a file src onto the name dst in directory d:
\* the tree afterwards, or the tree unchanged when the call raises
RenameRaises(d, src, dst) ==
    \/ src \notin Listing(d)
    \/ dst \in Listing(d) /\ ~posix

RenameTree(d, src, dst) ==
    [tree EXCEPT ![d] =
        {r \in tree[d] : r.name # src /\ r.name # dst}
            \cup {[Lookup(d, src) EXCEPT !.name = dst]}]

\* lines 37-41
RenameFile ==
    /\ pc = "rename"
    /\ IF RenameRaises(root, file, new_name)
       THEN /\ failed' = failed + 1
            /\ UNCHANGED <<tree, renamed>>
       ELSE /\ tree' = RenameTree(root, file, new_name)
            /\ renamed' = renamed + 1
            /\ failed' = failed
    /\ pc' = "loop"
    /\ UNCHANGED <<tree0, hash_len, posix, passNo, ended, walkq, root, files, file,
                   new_name, hashStr, deleted>>

\* both loops are exhausted: process_files returns
FinishPass ==
    /\ pc = "loop"
    /\ files = {}
    /\ walkq = <<>>
    /\ pc' = "idle"
    /\ ended' = Append(ended, "done")
    /\ UNCHANGED <<tree, tree0, hash_len, posix, passNo, walkq, root, files, file,
                   new_name, hashStr, renamed, failed, deleted>>

\* another process deletes a file while process_files runs
ConcurrentDelete ==
    /\ pc \in {"loop", "rename"}
    /\ deleted < MaxDeletes
    /\ \E d \in Dirs : \E r \in tree[d] :
         tree' = [tree EXCEPT ![d] = tree[d] \ {r}]
    /\ deleted' = deleted + 1
    /\ UNCHANGED <<tree0, hash_len, posix, pc, passNo, ended, walkq, root, files, file,
                   new_name, hashStr, renamed, failed>>

Next ==
    \/ StartPass /\ UNCHANGED snapVars
    \/ WalkDir /\ UNCHANGED snapVars
    \/ SkipFile /\ UNCHANGED snapVars
    \/ HashFile /\ UNCHANGED snapVars
    \/ RenameFile /\ UNCHANGED snapVars
    \/ FinishPass /\ UNCHANGED snapVars
    \/ ConcurrentDelete /\ UNCHANGED snapVars

Spec == Init /\ [][Next]_vars

(***************************************************************************)
(* A second specification of the renamer: the tree holds one file, whose   *)
(* digest ranges over a wide set, so that every case of the encoding (the  *)
(* empty representation, padding, an exact fit, truncation) occurs for     *)
(* every width.                                                            *)
(***************************************************************************)
WideDigests ==
    {0, 1, 35, 36, 37, 1295, 1296, 1297, 46655, 46656, 46657, 1679615, 1679616,
     60466175, 60466176, 2147483647}

DigestInit ==
    /\ \E w \in Widths, px \in BOOLEAN, d \in Dirs, c \in WideDigests,
          n \in {N_aj, N_a, N_hidden, N_tagged}, rd \in BOOLEAN :
            RenInitWith({<<d, [name |-> n, content |-> c, readable |-> rd]>>}, w, px)
    /\ SnapParked

DigestSpec == DigestInit /\ [][Next]_vars

(***************************************************************************)
(* folder_struct_to_json.py                                                *)
(*                                                                         *)
(* The scanned tree is a function from node numbers to records; node 0 is  *)
(* the target folder.  A node is                                           *)
(*   [parent, kind, ok, size, mtime, git]                                  *)
(* kind  "file", "dir", "flink" (symlink to a file), "dlink" (symlink to a *)
(*       directory);                                                       *)
(* ok    for a file: stat succeeds (FALSE: the entry is listed by its      *)
(*       directory but getsize/getmtime/isfile fail on it, as for a file   *)
(*       deleted after the listing or in a directory without search        *)
(*       permission); for a directory: it can be listed (FALSE: listdir    *)
(*       raises PermissionError, os.walk passes over it);                  *)
(* git   the time `git log -1 --format=%ai` prints for the file, as local  *)
(*       time and UTC offset, or NoGit when it prints nothing or fails.    *)
(* Times are integers (hours); a datetime is the integer of its instant.   *)
(***************************************************************************)
NoGit == [local |-> -1, off |-> 0]

\* datetime.now(timezone.utc) at the time of the run: later than every time of the tree
Now == 99

\* the name of node n: node 2 carries a name the renamer gives a.j, node 3 a name
\* with the tag of HASH_PATTERN
NodeName(n) ==
    CASE n = 1 -> <<"o">>
      [] n = 2 -> NewName(N_aj, HashField(0, 1))
      [] n = 3 -> N_tagged
      [] OTHER -> <<"d", BASE36_CHARS[n + 1]>>

RECURSIVE Pow2(_)
Pow2(n) == IF n = 0 THEN 1 ELSE 2 * Pow2(n - 1)

\* (mtime, git) of a file: untracked files, and tracked ones whose commit time
\* is later or earlier than the filesystem time
FileTimes ==
    { <<1, NoGit>>, <<2, NoGit>>, <<1, [local |-> 5, off |-> 1]>>,
      <<3, [local |-> 0, off |-> -2]>> }

\* the records node n can have below parent p; sizes are distinct powers of two,
\* so that a sum of sizes tells which files were counted
NodeOptions(n, p) ==
    {[parent |-> p, kind |-> "file", ok |-> TRUE, size |-> Pow2(n), mtime |-> t[1], git |-> t[2]]
        : t \in FileTimes}
    \cup {[parent |-> p, kind |-> "file", ok |-> FALSE, size |-> Pow2(n), mtime |-> 2, git |-> NoGit]}
    \cup {[parent |-> p, kind |-> "dir", ok |-> b, size |-> 0, mtime |-> 10 + n, git |-> NoGit]
        : b \in BOOLEAN}
    \cup {[parent |-> p, kind |-> k, ok |-> TRUE, size |-> Pow2(n), mtime |-> 9, git |-> NoGit]
        : k \in {"flink", "dlink"}}

\* the directories of f that can hold entries
Holders(f) == {m \in DOMAIN f : f[m].kind = "dir" /\ f[m].ok}

\* the trees with nodes 0..k, for k up to n: each node lies in a listable directory
RECURSIVE TreesUpToN(_)
TreesUpToN(n) ==
    IF n = 0
    THEN {(0 :> [parent |-> 0, kind |-> k, ok |-> b, size |-> 0, mtime |-> 10, git |-> NoGit])
            : k \in {"dir", "file"}, b \in BOOLEAN}
    ELSE LET T == TreesUpToN(n - 1)
         IN  T \cup UNION {{f @@ (n :> r) : r \in UNION {NodeOptions(n, p) : p \in Holders(f)}}
                            : f \in {g \in T : DOMAIN g = 0..(n - 1)}}

Nodes == DOMAIN fs

Children(n) == {m \in Nodes : m # 0 /\ fs[m].parent = n}

\* os.path.join of the names from the target down to node n
RECURSIVE RelPath(_)
RelPath(n) == IF n = 0 THEN <<>> ELSE Append(RelPath(fs[n].parent), NodeName(n))

\* os.path.islink: lstat, FALSE when it fails
islink(n) == fs[n].kind \in {"flink", "dlink"}

\* os.path.isfile: stat through links, FALSE when it fails
isfile(n) == fs[n].kind \in {"file", "flink"} /\ fs[n].ok

\* os.path.isdir
isdir(n) == fs[n].kind \in {"dir", "dlink"}

\* os.path.getsize / os.path.getmtime raise when stat fails
StatRaises(n) == ~fs[n].ok /\ fs[n].kind = "file"

\* git_dt.astimezone(timezone.utc)
ToUTC(g) == g.local - g.off

\* get_git_last_modified_utc: the commit time in UTC, or NoTime
NoTime == -100

get_git_last_modified_utc(n) ==
    IF ~git_root \/ ~isfile(n) THEN NoTime
    ELSE IF fs[n].git = NoGit THEN NoTime
    ELSE ToUTC(fs[n].git)

\* the time lines 74-82 and 110-117 take for a file
BestTime(n) ==
    IF get_git_last_modified_utc(n) # NoTime
    THEN get_git_last_modified_utc(n)
    ELSE fs[n].mtime

\* the directories os.walk(top) yields: top, then the walk of each subdirectory
\* that is not a symlink; a directory that cannot be listed yields nothing
WalkedTopOnly(top) == IF fs[top].ok THEN {top} ELSE {}

RECURSIVE Walked(_)
Walked(top) ==
    IF ~fs[top].ok THEN {}
    ELSE {top} \cup UNION {Walked(c) : c \in {m \in Children(top) : fs[m].kind = "dir"}}

\* the entries os.walk hands out in `files`
WalkFiles(top) ==
    {m \in Nodes : m # 0 /\ fs[m].parent \in Walked(top) /\ fs[m].kind \in {"file", "flink"}}

\* the loop of calculate_folder_total_size over a set of files
RECURSIVE SizeLoop(_, _)
SizeLoop(S, total) ==
    IF S = {} THEN total
    ELSE LET f == CHOOSE x \in S : TRUE
         IN  IF ~islink(f) /\ ~StatRaises(f)
             THEN SizeLoop(S \ {f}, total + fs[f].size)
             ELSE SizeLoop(S \ {f}, total)

calculate_folder_total_size(n) == SizeLoop(WalkFiles(n), 0)

\* the loop of get_folder_latest_mtime_utc
RECURSIVE MtimeLoop(_, _)
MtimeLoop(S, max_mtime) ==
    IF S = {} THEN max_mtime
    ELSE LET f == CHOOSE x \in S : TRUE
         IN  IF islink(f) THEN MtimeLoop(S \ {f}, max_mtime)
             ELSE IF max_mtime = NoTime \/ BestTime(f) > max_mtime
                  THEN MtimeLoop(S \ {f}, BestTime(f))
                  ELSE MtimeLoop(S \ {f}, max_mtime)

\* os.path.getmtime(file_path) of line 80 is not guarded
LatestMtimeRaises(n) == \E f \in WalkFiles(n) : ~islink(f) /\ StatRaises(f)

get_folder_latest_mtime_utc(n) ==
    LET m == MtimeLoop(WalkFiles(n), NoTime)
    IN  IF m = NoTime THEN fs[n].mtime ELSE m

\* HASH_PATTERN.sub(".", entry): each match, leftmost first, becomes "."
RECURSIVE SubFrom(_, _)
SubFrom(s, i) ==
    IF i > Len(s) THEN <<>>
    ELSE IF MatchEnd(s, i) > 0
         THEN <<".">> \o SubFrom(s, MatchEnd(s, i) + 1)
         ELSE <<s[i]>> \o SubFrom(s, i + 1)

DisplayName(s) == SubFrom(s, 1)

\* os.listdir, taken in the order of the node numbers
RECURSIVE SetToSeq(_)
SetToSeq(S) ==
    IF S = {} THEN <<>>
    ELSE LET m == CHOOSE x \in S : \A y \in S : x <= y
         IN  <<m>> \o SetToSeq(S \ {m})

listdir(n) == SetToSeq(Children(n))

FileEntry(n) ==
    [type |-> "file", name |-> DisplayName(NodeName(n)), relative_path |-> RelPath(n),
     size |-> fs[n].size, last_modified_at |-> BestTime(n), children |-> <<>>]

FolderEntry(n, total, latest, kids) ==
    [type |-> "folder", name |-> NodeName(n), relative_path |-> RelPath(n),
     size |-> total, last_modified_at |-> latest, children |-> kids]

Frame(n) ==
    [dir |-> n, todo |-> listdir(n), structure |-> <<>>, total_size |-> 0,
     latest_mtime |-> NoTime]

Top == stack[Len(stack)]

SetTop(fr) == [stack EXCEPT ![Len(stack)] = fr]

\* sys.argv[2], or the default name, as path components
DefaultOut == << <<"x">> >>

OutPaths == {<<NodeName(1)>>, <<NodeName(1), NodeName(2)>>, DefaultOut}

RenParked == RenInitWith({}, 0, FALSE)

SnapInit ==
    /\ RenParked
    /\ fs \in TreesUpToN(NNodes)
    /\ argc = 0
    /\ git_root = FALSE
    /\ output_path = <<>>
    /\ writable = FALSE
    /\ spc = "start"
    /\ stack = <<>>
    /\ struct_data = <<>>
    /\ exitcode = -1

\* main, lines 152-174, up to the first os.listdir of traverse_folder
MainStart ==
    /\ spc = "start"
    /\ \E n \in 1..4, out \in OutPaths, g \in BOOLEAN :
         /\ argc' = n
         /\ IF n \notin {2, 3}
            THEN /\ exitcode' = 1
                 /\ spc' = "exit"
                 /\ UNCHANGED <<output_path, git_root, stack>>
            ELSE /\ output_path' = IF n = 3 THEN out ELSE DefaultOut
                 /\ IF ~isdir(0)
                    THEN /\ exitcode' = 1
                         /\ spc' = "exit"
                         /\ UNCHANGED <<git_root, stack>>
                    ELSE /\ git_root' = g
                         /\ exitcode' = exitcode
                         /\ IF fs[0].ok
                            THEN spc' = "loop" /\ stack' = <<Frame(0)>>
                            ELSE spc' = "raised" /\ stack' = stack
    /\ UNCHANGED <<fs, writable, struct_data>>

\* lines 108-127: a regular file that is no symlink
VisitFile ==
    /\ spc = "loop"
    /\ Top.todo # <<>>
    /\ LET e == Head(Top.todo)
       IN  /\ isfile(e) /\ ~islink(e)
           /\ stack' = SetTop([Top EXCEPT !.todo = Tail(@),
                                          !.structure = Append(@, FileEntry(e))])
    /\ UNCHANGED <<fs, argc, git_root, output_path, writable, spc, struct_data, exitcode>>

\* neither branch of lines 108 and 130 is taken
SkipEntry ==
    /\ spc = "loop"
    /\ Top.todo # <<>>
    /\ LET e == Head(Top.todo)
       IN  /\ ~(isfile(e) /\ ~islink(e))
           /\ ~(isdir(e) /\ ~islink(e))
           /\ stack' = SetTop([Top EXCEPT !.todo = Tail(@)])
    /\ UNCHANGED <<fs, argc, git_root, output_path, writable, spc, struct_data, exitcode>>

\* line 131
FolderSize ==
    /\ spc = "loop"
    /\ Top.todo # <<>>
    /\ LET e == Head(Top.todo)
       IN  /\ isdir(e) /\ ~islink(e)
           /\ stack' = SetTop([Top EXCEPT !.total_size = calculate_folder_total_size(e)])
    /\ spc' = "sized"
    /\ UNCHANGED <<fs, argc, git_root, output_path, writable, struct_data, exitcode>>

\* lines 132-134
FolderMtime ==
    /\ spc = "sized"
    /\ LET e == Head(Top.todo)
       IN  IF LatestMtimeRaises(e)
           THEN spc' = "raised" /\ stack' = stack
           ELSE /\ spc' = "timed"
                /\ stack' = SetTop([Top EXCEPT !.latest_mtime = get_folder_latest_mtime_utc(e)])
    /\ UNCHANGED <<fs, argc, git_root, output_path, writable, struct_data, exitcode>>

\* line 135: the recursive call, up to its os.listdir
Recurse ==
    /\ spc = "timed"
    /\ LET e == Head(Top.todo)
       IN  IF fs[e].ok
           THEN spc' = "loop" /\ stack' = Append(stack, Frame(e))
           ELSE spc' = "raised" /\ stack' = stack
    /\ UNCHANGED <<fs, argc, git_root, output_path, writable, struct_data, exitcode>>

\* line 148 of the inner call and lines 137-146 of its caller
Return ==
    /\ spc = "loop"
    /\ Len(stack) > 1
    /\ Top.todo = <<>>
    /\ LET caller == stack[Len(stack) - 1]
           e == Head(caller.todo)
           entry == FolderEntry(e, caller.total_size, caller.latest_mtime, Top.structure)
       IN  stack' = Append(SubSeq(stack, 1, Len(stack) - 2),
                           [caller EXCEPT !.todo = Tail(@),
                                          !.structure = Append(@, entry)])
    /\ UNCHANGED <<fs, argc, git_root, output_path, writable, spc, struct_data, exitcode>>

\* lines 175-178: the first item of struct_data whose relative_path is output_path
\* gets the current time
RECURSIVE FixupFrom(_, _)
FixupFrom(items, i) ==
    IF i > Len(items) THEN items
    ELSE IF items[i].relative_path = output_path
         THEN [items EXCEPT ![i].last_modified_at = Now]
         ELSE FixupFrom(items, i + 1)

Fixup(items) == FixupFrom(items, 1)

\* traverse_folder returns to main (line 174), then lines 175-184
ReturnToMain ==
    /\ spc = "loop"
    /\ Len(stack) = 1
    /\ Top.todo = <<>>
    /\ struct_data' = Fixup(Top.structure)
    /\ stack' = <<>>
    /\ spc' = "write"
    /\ UNCHANGED <<fs, argc, git_root, output_path, writable, exitcode>>

\* lines 186-192
WriteOutput ==
    /\ spc = "write"
    /\ \E w \in BOOLEAN :
         /\ writable' = w
         /\ exitcode' = IF w THEN 0 ELSE 1
    /\ spc' = "exit"
    /\ UNCHANGED <<fs, argc, git_root, output_path, stack, struct_data>>

SnapNext ==
    \/ MainStart /\ UNCHANGED renVars
    \/ VisitFile /\ UNCHANGED renVars
    \/ SkipEntry /\ UNCHANGED renVars
    \/ FolderSize /\ UNCHANGED renVars
    \/ FolderMtime /\ UNCHANGED renVars
    \/ Recurse /\ UNCHANGED renVars
    \/ Return /\ UNCHANGED renVars
    \/ ReturnToMain /\ UNCHANGED renVars
    \/ WriteOutput /\ UNCHANGED renVars

SnapSpec == SnapInit /\ [][SnapNext]_vars

(***************************************************************************)
(* Claims about the renamer                                                *)
(***************************************************************************)
AllFiles(t) == UNION {t[d] : d \in Dirs}

\* C1: a second call of process_files right after a first one that returned, with
\* no other change to the tree, renames nothing (every name the first call produced
\* is skipped as already tagged).
C1_SecondPassRenamesNothing ==
    (passNo = 2 /\ ended # <<>> /\ ended[1] = "done" /\ deleted = 0) => renamed = 0

\* C2: the new name of a renamed file is <stem> ._.M <hash> ._. <extension without
\* its leading dot>.
C2_NewNameHasMarker ==
    pc = "rename" =>
        LET se == splitext(file)
            ext == IF se[2] = <<>> THEN <<>> ELSE Tail(se[2])
        IN  new_name = se[1] \o <<".", "_", ".", "M">> \o hashStr \o <<".", "_", ".">> \o ext

\* C3: the hash field has exactly the configured width and holds only symbols of
\* 0-9a-z; a shorter base-36 representation (the empty one of digest 0 included) is
\* left-padded with "0", a longer one is cut to its first hash_len symbols.
C3_HashFieldWidth ==
    pc = "rename" =>
        /\ Len(hashStr) = hash_len
        /\ \A i \in 1..Len(hashStr) : IsB36(hashStr[i])
        /\ \E r \in AllFiles(tree0) :
             LET b == Base36(r.content)
             IN  IF Len(b) <= hash_len
                 THEN /\ SubSeq(hashStr, hash_len - Len(b) + 1, hash_len) = b
                      /\ \A i \in 1..(hash_len - Len(b)) : hashStr[i] = "0"
                 ELSE \A i \in 1..hash_len : hashStr[i] = b[i]

\* C3 witness: digest 0 (empty representation) padded to the width, and a long
\* representation cut, both occur; this one is the all-filler field of digest 0.
C3_Witness ==
    /\ pc = "rename"
    /\ hash_len = MaxWidth
    /\ hash_len > 0
    /\ \A r \in AllFiles(tree0) : r.content = 0
    /\ \A i \in 1..Len(hashStr) : hashStr[i] = "0"

\* C4: a failure while handling one file never ends the pass with an exception.
C4_PassNeverRaises == pc # "raised"

\* C10: passes of process_files never lose a file: without deletions by another
\* process, every directory holds as many files of each content as at the start.
C10_NoFileLost ==
    deleted = 0 =>
        \A d \in Dirs : \A c \in Digests \cup WideDigests :
            Cardinality({r \in tree[d] : r.content = c})
                = Cardinality({r \in tree0[d] : r.content = c})

(***************************************************************************)
(* Claims about the snapshot builder                                       *)
(***************************************************************************)
\* the entries of a structure, at any depth
RECURSIVE EntriesOf(_)
EntriesOf(items) ==
    UNION {{items[i]} \cup EntriesOf(items[i].children) : i \in 1..Len(items)}

\* every entry built so far: in the frames of traverse_folder and in struct_data
Built == EntriesOf(struct_data) \cup UNION {EntriesOf(stack[i].structure) : i \in 1..Len(stack)}

NodeOfEntry(e) == CHOOSE n \in Nodes : RelPath(n) = e.relative_path

\* node m lies in the subtree of node n (at any depth)
RECURSIVE Under(_, _)
Under(m, n) == m # 0 /\ (fs[m].parent = n \/ Under(fs[m].parent, n))

RECURSIVE SumSizes(_)
SumSizes(S) ==
    IF S = {} THEN 0
    ELSE LET x == CHOOSE y \in S : TRUE IN fs[x].size + SumSizes(S \ {x})

\* the files of the subtree of n that are no symlinks and whose size can be read
SizedFilesUnder(n) == {m \in Nodes : Under(m, n) /\ fs[m].kind = "file" /\ fs[m].ok}

\* the frames whose local total_size is set: every caller of a running call, and
\* the innermost frame after line 131
HasTotal(i) == i < Len(stack) \/ spc \in {"sized", "timed"}

\* C5: total_size_bytes of a folder is the sum of the sizes of all non-symlink files
\* of its subtree, at any depth; symlinks and files whose size cannot be read count
\* zero and do not abort the sum.
C5_FolderTotalSize ==
    /\ \A e \in Built :
         e.type = "folder" => e.size = SumSizes(SizedFilesUnder(NodeOfEntry(e)))
    /\ \A i \in 1..Len(stack) :
         HasTotal(i) =>
            stack[i].total_size = SumSizes(SizedFilesUnder(Head(stack[i].todo)))

\* C5 witness: the written document holds a folder with a file two levels down,
\* whose size is the folder's total.
C5_Witness ==
    /\ exitcode = 0
    /\ \E e \in EntriesOf(struct_data) :
         /\ e.type = "folder"
         /\ e.size > 0
         /\ \E i \in 1..Len(e.children) :
              /\ e.children[i].type = "folder"
              /\ \E j \in 1..Len(e.children[i].children) :
                   /\ e.children[i].children[j].type = "file"
                   /\ e.children[i].children[j].size = e.size

\* the best modification time of a file: commit time if there is one, else mtime
ClaimBest(m) == IF git_root /\ fs[m].git # NoGit THEN fs[m].git.local - fs[m].git.off ELSE fs[m].mtime

PlainFilesUnder(n) == {m \in Nodes : Under(m, n) /\ fs[m].kind = "file"}

\* C6: last_modified_at of a folder entry of the snapshot is the maximum best time of
\* the non-symlink files of its subtree, or the folder's own mtime when there is
\* none; so it is never earlier than the time of a file entry below it.
C6_FolderLatestMtime ==
    exitcode = 0 =>
        \A e \in EntriesOf(struct_data) :
            e.type = "folder" =>
                LET n == NodeOfEntry(e)
                    F == PlainFilesUnder(n)
                IN  /\ IF F = {}
                       THEN e.last_modified_at = fs[n].mtime
                       ELSE /\ \E m \in F : e.last_modified_at = ClaimBest(m)
                            /\ \A m \in F : e.last_modified_at >= ClaimBest(m)
                    /\ \A d \in EntriesOf(e.children) :
                         d.type = "file" => e.last_modified_at >= d.last_modified_at

\* The same relation for the structure as traverse_folder builds it, before main
\* touches it; it holds in every state of SnapSpec.
FolderLatestAsTraversed ==
    \A e \in UNION {EntriesOf(stack[i].structure) : i \in 1..Len(stack)} :
        e.type = "folder" =>
            LET n == NodeOfEntry(e)
                F == PlainFilesUnder(n)
            IN  IF F = {}
                THEN e.last_modified_at = fs[n].mtime
                ELSE /\ \E m \in F : e.last_modified_at = ClaimBest(m)
                     /\ \A m \in F : e.last_modified_at >= ClaimBest(m)

\* C7: once main has run the fixup, every entry of the structure, at any depth,
\* whose relative_path is the output path carries the generation time.
C7_OutputEntryGetsNow ==
    spc \in {"write", "exit"} =>
        \A e \in EntriesOf(struct_data) :
            e.relative_path = output_path => e.last_modified_at = Now

\* the names process_files gives a.j
RenamerNames == {NewName(N_aj, HashField(d, w)) : d \in Digests, w \in Widths \ {0}}

\* C8: the display name of a file the renamer produced from a.j is a.j again.
C8_DisplayNameRoundTrip ==
    \A e \in Built :
        (e.type = "file" /\ e.relative_path[Len(e.relative_path)] \in RenamerNames)
            => e.name = N_aj

\* C9: no failing version-control query or stat call ends the traversal with an
\* exception; the program fails only for a wrong argument count, a target that is no
\* directory, or an output file that cannot be written.
C9_TraversalNeverRaises ==
    /\ spc # "raised"
    /\ exitcode = 1 => (argc \notin {2, 3} \/ ~isdir(0) \/ ~writable)

====
